---- MODULE Spec2Model ----
(***************************************************************************)
(* Model of the raster access and temporal alignment logic of the          *)
(* FarmVibes.AI Sentinel/SpaceEye notebook                                  *)
(* (notebooks/sentinel/sentinel_spaceeye.ipynb).                            *)
(*                                                                         *)
(* Three specifications share the variables of this module:                *)
(*   SpecAlign   cells c04c20e5 / a5778c75 / a340fee3: sorting a raster     *)
(*               collection by start time and nearest-in-time matching     *)
(*   SpecSelect  cell 26d5a335: cloud-cover selection                       *)
(*   SpecRead    cell 084d5413: window resolution and raster reads          *)
(* Times are whole days, coordinates are integers in CRS units (half a     *)
(* pixel of the modelled raster), and a cloud ratio is an exact fraction   *)
(* [num, den].                                                             *)
(***************************************************************************)
EXTENDS Integers, Sequences, FiniteSets, TLC

VARIABLES
    \* ---- temporal alignment (SpecAlign)
    collection,     \* the raster collection handed to sorted(): records [id, start]
    s1_rasters,     \* result of sorted(collection, key=start time)
    se_raster,      \* result of the nearest-in-time lookup
    ref_time,       \* s2.time_range[0] of the current loop iteration
    align_err,      \* exception raised by the last loop iteration, or "none"
    align_reads,    \* rasters handed to read_raster by the last loop iteration
    align_ran,      \* which cells have run: subset of {"sort", "nearest"}
    \* ---- cloud-cover selection (SpecSelect)
    raster,             \* run.output["raster"]: sequence of raster ids
    mask,               \* run2.output["mask"]: records [id, px]
    cloud_thr,          \* threshold, a fraction [num, den]
    cloud_ratio,        \* list of fractions, one per mask
    cloud_free_rasters,
    cloudy_rasters,
    select_ran,
    \* ---- window resolution and reads (SpecRead)
    proj_geom,      \* envelope of the projected geometry [minx, miny, maxx, maxy]
    win,            \* the window bound by the last successful geometry_window
    pc,             \* position inside the current call
    call,           \* number of calls started so far
    cur,            \* the handle of the call in progress (0: none)
    open_handles,   \* handles currently open
    rr_win,         \* the window local to the read_raster call in progress
    read_err,       \* exception raised by the last call, or "none"
    read_log,       \* reads of raster storage performed so far
    \* ---- daily imagery (SpecDaily)
    se_days,        \* reference days on which se_run.output["raster"] has a raster
    s2_days,        \* reference days on which runs[0].output["raster"] has a raster
    r_idx,          \* position of the outer loop: 1 SpaceEye, 2 Sentinel-2, 3 done
    day_i,          \* i of the inner loop
    match_ar,       \* the image of the last matching raster, or unbound
    no_data,        \* the placeholder image, or unbound
    daily_err,      \* exception raised by the cell, or "none"
    shown           \* what plt.imshow was given, in order

alignVars == <<collection, s1_rasters, se_raster, ref_time, align_err, align_reads, align_ran>>
selectVars == <<raster, mask, cloud_thr, cloud_ratio, cloud_free_rasters, cloudy_rasters, select_ran>>
readVars == <<proj_geom, win, pc, call, cur, open_handles, rr_win, read_err, read_log>>
dailyVars == <<se_days, s2_days, r_idx, day_i, match_ar, no_data, daily_err, shown>>
vars == <<alignVars, selectVars, readVars, dailyVars>>

----------------------------------------------------------------------------
(* Bounds *)

MaxLen == 3          \* longest raster collection
MaxTime == 4         \* start times are days 0..MaxTime
MaxRasters == 2      \* longest run.output["raster"]
MaxMasks == 2        \* longest run2.output["mask"]
MaskSize == 2        \* pixels of a mask inside the window
GridSize == 2        \* the raster is GridSize + 1 pixels wide and GridSize high
MaxCalls == 2        \* reads started in one session

Times == 0..MaxTime

----------------------------------------------------------------------------
(* Python's sorted(): a stable sort on precomputed keys *)

\* Insert x in front of the elements of equal key: equal keys end up in
\* reverse arrival order.
InsertUnstable(s, x) ==
    LET n == Cardinality({i \in 1..Len(s) : s[i].key < x.key})
    IN  SubSeq(s, 1, n) \o <<x>> \o SubSeq(s, n + 1, Len(s))

\* Insert x into the key-sorted sequence s behind every element whose key is
\* not greater: equal keys keep their arrival order.
Insert(s, x) ==
    LET n == Cardinality({i \in 1..Len(s) : s[i].key <= x.key})
    IN  SubSeq(s, 1, n) \o <<x>> \o SubSeq(s, n + 1, Len(s))

RECURSIVE SortKeyed(_)
SortKeyed(s) ==
    IF s = <<>> THEN <<>>
    ELSE Insert(SortKeyed(SubSeq(s, 1, Len(s) - 1)), s[Len(s)])

\* sorted(s, key=...): decorate each element with its key (keys[i] is the
\* key of s[i]), sort stably, undecorate.
sorted(s, keys) ==
    LET dec == [i \in 1..Len(s) |-> [key |-> keys[i], val |-> s[i]]]
        srt == SortKeyed(dec)
    IN  [i \in 1..Len(s) |-> srt[i].val]

abs(d) == IF d < 0 THEN -d ELSE d

\* key=lambda x: x.time_range[0]
StartKey(x) == x.start

StartKeys(s) == [i \in 1..Len(s) |-> StartKey(s[i])]

\* the key without abs()
SignedDiffKey(t, x) == t - x.start

\* key=lambda x: abs(s2.time_range[0] - x.time_range[0])
AbsDiffKey(t, x) == abs(t - x.start)

AbsDiffKeys(t, s) == [i \in 1..Len(s) |-> AbsDiffKey(t, s[i])]

NoRaster == [id |-> 0, start |-> 0]

\* the lookup on a collection that is sorted by start time first
nearest_presorted(t, coll) ==
    LET srt == sorted(sorted(coll, StartKeys(coll)), AbsDiffKeys(t, sorted(coll, StartKeys(coll))))
    IN  IF srt = <<>>
        THEN [err |-> "IndexError", val |-> NoRaster]
        ELSE [err |-> "none", val |-> srt[1]]

\* the lookup with a placeholder instead of an error on an empty collection
nearest_default(t, coll) ==
    LET srt == sorted(coll, AbsDiffKeys(t, coll))
    IN  [err |-> "none", val |-> IF srt = <<>> THEN NoRaster ELSE srt[1]]

\* sorted(se_run.output["raster"], key=...)[0]; indexing an empty list
\* raises IndexError.
nearest(t, coll) ==
    LET srt == sorted(coll, AbsDiffKeys(t, coll))
    IN  IF srt = <<>>
        THEN [err |-> "IndexError", val |-> NoRaster]
        ELSE [err |-> "none", val |-> srt[1]]

----------------------------------------------------------------------------
(* SpecAlign *)

\* A collection of n rasters; the id of a raster is its input position.
Collections ==
    UNION {{[i \in 1..n |-> [id |-> i, start |-> f[i]]] : f \in [1..n -> Times]} : n \in 0..MaxLen}

AlignIdle ==
    /\ collection = <<>>
    /\ s1_rasters = <<>>
    /\ se_raster = NoRaster
    /\ ref_time = 0
    /\ align_err = "none"
    /\ align_reads = <<>>
    /\ align_ran = {}

SelectIdle ==
    /\ raster = <<>>
    /\ mask = <<>>
    /\ cloud_thr = [num |-> 0, den |-> 1]
    /\ cloud_ratio = <<>>
    /\ cloud_free_rasters = <<>>
    /\ cloudy_rasters = <<>>
    /\ select_ran = FALSE

NoWindow == [col_off |-> -1, row_off |-> -1, width |-> 0, height |-> 0]

ReadIdle ==
    /\ proj_geom = [minx |-> 0, miny |-> 0, maxx |-> 0, maxy |-> 0]
    /\ win = NoWindow
    /\ pc = "idle"
    /\ call = 0
    /\ cur = 0
    /\ open_handles = {}
    /\ rr_win = NoWindow
    /\ read_err = "none"
    /\ read_log = <<>>

\* a name that has not been assigned
Unbound == [bound |-> FALSE, r |-> 0, day |-> 0]

DailyIdle ==
    /\ se_days = {}
    /\ s2_days = {}
    /\ r_idx = 1
    /\ day_i = 1
    /\ match_ar = Unbound
    /\ no_data = Unbound
    /\ daily_err = "none"
    /\ shown = <<>>

InitAlign ==
    /\ collection \in Collections
    /\ s1_rasters = <<>>
    /\ se_raster = NoRaster
    /\ ref_time = 0
    /\ align_err = "none"
    /\ align_reads = <<>>
    /\ align_ran = {}
    /\ SelectIdle
    /\ ReadIdle
    /\ DailyIdle

\* cell c04c20e5: s1_rasters = sorted(..., key=lambda x: x.time_range[0])
SortByTime ==
    /\ s1_rasters' = sorted(collection, StartKeys(collection))
    /\ align_ran' = align_ran \cup {"sort"}
    /\ UNCHANGED <<collection, se_raster, ref_time, align_err, align_reads>>
    /\ UNCHANGED <<selectVars, readVars, dailyVars>>

\* cells a5778c75 / a340fee3, one loop iteration for the reference raster s2
\* with start time t: the lookup, then read_raster(s2, geom) and
\* read_raster(se_raster). An IndexError leaves the loop before either read.
Nearest(t) ==
    LET r == nearest(t, collection)
    IN  /\ ref_time' = t
        /\ align_err' = r.err
        /\ se_raster' = IF r.err = "none" THEN r.val ELSE se_raster
        /\ align_reads' = IF r.err = "none" THEN <<"s2", "se_raster">> ELSE <<>>
        /\ align_ran' = align_ran \cup {"nearest"}
        /\ UNCHANGED <<collection, s1_rasters>>
        /\ UNCHANGED <<selectVars, readVars, dailyVars>>

NextAlign ==
    \/ SortByTime
    \/ \E t \in Times : Nearest(t)

SpecAlign == InitAlign /\ [][NextAlign]_vars

----------------------------------------------------------------------------
(* Properties of SpecAlign *)

Dist(a, b) == IF a >= b THEN a - b ELSE b - a

Positions(s) == 1..Len(s)

\* Input positions of the entries closest in time to t.
Closest(t, coll) ==
    {i \in Positions(coll) :
        \A j \in Positions(coll) : Dist(t, coll[i].start) <= Dist(t, coll[j].start)}

SetMin(S) == CHOOSE m \in S : \A n \in S : m <= n

NearestRan == "nearest" \in align_ran

ScenarioStarts == <<[id |-> 1, start |-> 1], [id |-> 2, start |-> 6], [id |-> 3, start |-> 11]>>

ScenarioNearest ==
    nearest(8, ScenarioStarts) = [err |-> "none", val |-> [id |-> 2, start |-> 6]]

\* C2: on a non-empty collection the lookup returns an entry of the
\* collection whose absolute time difference to the reference time is minimal
\* over the whole collection; an entry starting exactly at the reference time
\* gives a zero difference; starts [06-01, 06-06, 06-11] with reference 06-08
\* give the 06-06 entry.
C2_NearestMinimizes ==
    /\ (NearestRan /\ collection # <<>>) =>
          /\ align_err = "none"
          /\ \E i \in Positions(collection) : collection[i] = se_raster
          /\ \A j \in Positions(collection) :
                Dist(ref_time, se_raster.start) <= Dist(ref_time, collection[j].start)
          /\ (\E j \in Positions(collection) : collection[j].start = ref_time)
                => Dist(ref_time, se_raster.start) = 0
    /\ ScenarioNearest

\* The lookup has run on a collection whose entries are at different
\* distances from the reference time, and the closest one is not the first.
C2_Witness ==
    /\ NearestRan
    /\ Len(collection) >= 2
    /\ align_err = "none"
    /\ se_raster.id > 1
    /\ Dist(ref_time, se_raster.start) < Dist(ref_time, collection[1].start)

\* C3 as stated: among the entries with the minimal absolute time difference
\* the lookup returns the one that comes first once the collection is stably
\* sorted by start time.
C3_TieByTimeOrder ==
    (NearestRan /\ collection # <<>>) =>
        LET byTime == sorted(collection, StartKeys(collection))
        IN  se_raster = byTime[SetMin(Closest(ref_time, byTime))]

\* C3 amended: among the entries with the minimal absolute time difference
\* the lookup returns the one that comes first in the input order; the
\* collection is not sorted by start time beforehand.
C3_TieByInputOrder ==
    (NearestRan /\ collection # <<>>) =>
        se_raster = collection[SetMin(Closest(ref_time, collection))]

\* Two entries tie, one before and one after the reference time, the later
\* one supplied first, and the later one is returned.
C3_Witness ==
    /\ NearestRan
    /\ align_err = "none"
    /\ \E i, j \in Positions(collection) :
          /\ i < j
          /\ collection[i].start > ref_time
          /\ collection[j].start < ref_time
          /\ {i, j} \subseteq Closest(ref_time, collection)
          /\ se_raster = collection[i]

\* C4 as stated: the lookup over an empty collection fails with the error
\* kind EmptyCollection, returns no raster and reads nothing.
C4_EmptyCollectionKind ==
    (NearestRan /\ collection = <<>>) =>
        /\ align_err = "EmptyCollection"
        /\ se_raster = NoRaster
        /\ align_reads = <<>>

\* C4 amended: the lookup over an empty collection fails with Python's
\* IndexError raised to the caller, for every reference time; no raster is
\* bound and no read of raster storage follows in that iteration.
C4_EmptyRaisesIndexError ==
    (NearestRan /\ collection = <<>>) =>
        /\ align_err = "IndexError"
        /\ se_raster = NoRaster
        /\ align_reads = <<>>

C4_Witness ==
    /\ NearestRan
    /\ collection = <<>>
    /\ ref_time > 0
    /\ align_err # "none"

Count(s, x) == Cardinality({i \in Positions(s) : s[i] = x})

\* C5: sorting by time gives a stable permutation: the same rasters with the
\* same multiplicities, non-decreasing start times, rasters of identical
\* start time in their relative input order, and sorting the result again
\* changes nothing.
C5_SortStablePermutation ==
    "sort" \in align_ran =>
        /\ Len(s1_rasters) = Len(collection)
        /\ \A i \in Positions(collection) :
              Count(s1_rasters, collection[i]) = Count(collection, collection[i])
        /\ \A i, j \in Positions(s1_rasters) :
              i < j => /\ s1_rasters[i].start <= s1_rasters[j].start
                       /\ (s1_rasters[i].start = s1_rasters[j].start
                             => s1_rasters[i].id < s1_rasters[j].id)
        /\ sorted(s1_rasters, StartKeys(s1_rasters)) = s1_rasters

\* The sort has moved a raster forward past two rasters that share a start
\* time.
C5_Witness ==
    /\ "sort" \in align_ran
    /\ Len(collection) = 3
    /\ collection[1].start = collection[2].start
    /\ collection[3].start < collection[1].start
    /\ s1_rasters = <<collection[3], collection[1], collection[2]>>

----------------------------------------------------------------------------
(* SpecSelect: cell 26d5a335 *)

\* cloud_thr = 0.1
CloudThrNum == 1
CloudThrDen == 10

Thresholds ==
    {[num |-> 0, den |-> 1], [num |-> CloudThrNum, den |-> CloudThrDen],
     [num |-> 1, den |-> 2], [num |-> 1, den |-> 1]}

\* the sum of the elements, added up pairwise by halves
RECURSIVE Sum(_)
Sum(s) ==
    IF Len(s) = 0 THEN 0
    ELSE IF Len(s) = 1 THEN s[1]
    ELSE LET h == Len(s) \div 2
         IN  Sum(SubSeq(s, 1, h)) + Sum(SubSeq(s, h + 1, Len(s)))

\* a mean that weights pixel k by k
mean_weighted(px) ==
    [num |-> Sum([k \in 1..Len(px) |-> k * px[k]]), den |-> Sum([k \in 1..Len(px) |-> k])]

\* read_raster(c, geom, filled=False)[0].mean(): the mean of the mask pixels
\* of the window, as an exact fraction.
mean(px) == [num |-> Sum(px), den |-> Len(px)]

\* c <= cloud_thr
IsCloudFreeInclusive(c, thr) == c.num * thr.den <= thr.num * c.den

\* c < cloud_thr and c >= cloud_thr on fractions with positive denominators
IsCloudFree(c, thr) == c.num * thr.den < thr.num * c.den

IsCloudy(c, thr) == c.num * thr.den >= thr.num * c.den

Min(a, b) == IF a <= b THEN a ELSE b

\* zip() stops at the shorter of its two arguments
zip(a, b) == [i \in 1..Min(Len(a), Len(b)) |-> <<a[i], b[i]>>]

Firsts(pairs) == [i \in 1..Len(pairs) |-> pairs[i][1]]

InjectiveSeqs(S, n) == {f \in [1..n -> S] : \A i, j \in 1..n : i # j => f[i] # f[j]}

RasterSeqs == {[i \in 1..n |-> i] : n \in 0..MaxRasters}

MaskSeqs ==
    UNION {{[i \in 1..n |-> [id |-> ids[i], px |-> pxs[i]]] :
                ids \in InjectiveSeqs(1..MaxMasks, n),
                pxs \in [1..n -> [1..MaskSize -> {0, 1}]]} : n \in 0..MaxMasks}

InitSelect ==
    /\ raster \in RasterSeqs
    /\ mask \in MaskSeqs
    /\ cloud_thr \in Thresholds
    /\ cloud_ratio = <<>>
    /\ cloud_free_rasters = <<>>
    /\ cloudy_rasters = <<>>
    /\ select_ran = FALSE
    /\ AlignIdle
    /\ ReadIdle
    /\ DailyIdle

SelectCloudFree ==
    LET ratios == [i \in 1..Len(mask) |-> mean(mask[i].px)]
        pairs == zip(raster, ratios)
    IN  /\ cloud_ratio' = ratios
        /\ cloud_free_rasters' =
              Firsts(SelectSeq(pairs, LAMBDA p : IsCloudFree(p[2], cloud_thr)))
        /\ cloudy_rasters' =
              Firsts(SelectSeq(pairs, LAMBDA p : IsCloudy(p[2], cloud_thr)))
        /\ select_ran' = TRUE
        /\ UNCHANGED <<raster, mask, cloud_thr>>
        /\ UNCHANGED <<alignVars, readVars, dailyVars>>

NextSelect == SelectCloudFree

SpecSelect == InitSelect /\ [][NextSelect]_vars

InSeq(x, s) == \E i \in 1..Len(s) : s[i] = x

Paired == 1..Min(Len(raster), Len(cloud_ratio))

\* C1: a raster is put in the usable list exactly when its ratio is below
\* the threshold, and in the unusable list for every ratio at or above the
\* threshold, the boundary ratio = threshold included.
C1_StrictThreshold ==
    select_ran =>
        \A i \in Paired :
            LET c == cloud_ratio[i]
                below == c.num * cloud_thr.den < cloud_thr.num * c.den
            IN  /\ InSeq(raster[i], cloud_free_rasters) <=> below
                /\ ~below => InSeq(raster[i], cloudy_rasters)

\* A raster whose ratio equals a threshold strictly between 0 and 1 has been
\* put in the unusable list, next to one that is usable.
C1_Witness ==
    /\ select_ran
    /\ cloud_thr.num > 0
    /\ \E i \in Paired :
          /\ cloud_ratio[i].num * cloud_thr.den = cloud_thr.num * cloud_ratio[i].den
          /\ InSeq(raster[i], cloudy_rasters)
          /\ ~InSeq(raster[i], cloud_free_rasters)
    /\ cloud_free_rasters # <<>>

Ones(px) == Cardinality({k \in 1..Len(px) : px[k] = 1})

Perms(n) == {f \in [1..n -> 1..n] : \A i, j \in 1..n : i # j => f[i] # f[j]}

\* a 100 x 100 mask window with 5000 cloud pixels
Mask5000 == [k \in 1..10000 |-> IF k % 2 = 0 THEN 1 ELSE 0]

Scenario5000 ==
    LET c == mean(Mask5000)
        thr == [num |-> CloudThrNum, den |-> CloudThrDen]
    IN  /\ c.num * 2 = c.den
        /\ IsCloudy(c, thr)
        /\ ~IsCloudFree(c, thr)

\* C11: the cloud ratio of a 0/1 mask is the number of cloud pixels over the
\* number of pixels of the window, without weighting: it lies in [0, 1], is
\* exactly 0 for an all-valid and exactly 1 for an all-cloud mask, does not
\* change under a permutation of the pixels, and is 0.5 for a 100 x 100
\* window with 5000 cloud pixels, which the threshold 0.1 makes unusable.
C11_RatioIsCloudFraction ==
    /\ select_ran =>
          \A i \in 1..Len(mask) :
              LET c == cloud_ratio[i]
                  px == mask[i].px
              IN  /\ c.den = Len(px)
                  /\ c.num = Ones(px)
                  /\ 0 <= c.num /\ c.num <= c.den
                  /\ (\A k \in 1..Len(px) : px[k] = 0) => c.num = 0
                  /\ (\A k \in 1..Len(px) : px[k] = 1) => c.num = c.den
                  /\ \A f \in Perms(Len(px)) :
                        mean([k \in 1..Len(px) |-> px[f[k]]]) = c
    /\ Scenario5000

\* The ratios of an all-cloud mask and of a mask whose first pixel is cloud
\* and whose last is valid have been computed.
C11_Witness ==
    /\ select_ran
    /\ \E i, j \in 1..Len(mask) :
          /\ \A k \in 1..Len(mask[i].px) : mask[i].px[k] = 1
          /\ cloud_ratio[i].num = cloud_ratio[i].den
          /\ mask[j].px[1] = 1
          /\ mask[j].px[Len(mask[j].px)] = 0
          /\ cloud_ratio[j].num > 0
          /\ cloud_ratio[j].num < cloud_ratio[j].den


\* C12: every raster is bucketed by the cloud ratio of its own mask, the
\* mask with the raster's identity, whatever the order and the length of the
\* raster sequence and of the mask sequence.
C12_BucketedByOwnMask ==
    select_ran =>
        \A i \in 1..Len(raster), j \in 1..Len(mask) :
            mask[j].id = raster[i] =>
                LET px == mask[j].px
                    below == Ones(px) * cloud_thr.den < cloud_thr.num * Len(px)
                IN  /\ InSeq(raster[i], cloud_free_rasters) <=> below
                    /\ InSeq(raster[i], cloudy_rasters) <=> ~below

PosIn(s, x) == CHOOSE i \in 1..Len(s) : s[i] = x

KeepsInputOrder(s) ==
    \A a, b \in 1..Len(s) :
        a < b => /\ InSeq(s[a], raster) /\ InSeq(s[b], raster)
                 /\ PosIn(raster, s[a]) < PosIn(raster, s[b])

\* C14: after the selection every raster of the input sequence is in exactly
\* one of cloud_free_rasters and cloudy_rasters, and both lists keep the
\* input order.
C14_ExactlyOneBucket ==
    select_ran =>
        /\ \A i \in 1..Len(raster) :
              Cardinality({k \in 1..Len(cloud_free_rasters) : cloud_free_rasters[k] = raster[i]})
                + Cardinality({k \in 1..Len(cloudy_rasters) : cloudy_rasters[k] = raster[i]}) = 1
        /\ KeepsInputOrder(cloud_free_rasters)
        /\ KeepsInputOrder(cloudy_rasters)


----------------------------------------------------------------------------
(* Window resolution: rasterio's geometry_window on the envelope *)

\* The opened dataset: a north-up grid whose pixel (row, col) covers
\* x in [c + col*a, c + (col+1)*a] and y in [f + (row+1)*e, f + row*e]; a
\* pixel is two CRS units wide and high.
src ==
    [width |-> GridSize + 1, height |-> GridSize,
     transform |-> [a |-> 2, c |-> 0, e |-> -2, f |-> GridSize * 2]]

Max(a, b) == IF a >= b THEN a ELSE b

\* floor and ceil of the fraction n / d, d > 0
floor(n, d) == n \div d

ceil(n, d) == -((-n) \div d)

Window(col_off, row_off, width, height) ==
    [col_off |-> col_off, row_off |-> row_off, width |-> width, height |-> height]

\* ((row_start, row_stop), (col_start, col_stop))
toranges(w) ==
    <<<<w.row_off, w.row_off + w.height>>, <<w.col_off, w.col_off + w.width>>>>

\* the envelope in pixel coordinates, as numerators over the pixel size
bounds(g, t) ==
    [left |-> g.minx - t.c, right |-> g.maxx - t.c,
     top |-> t.f - g.maxy, bottom |-> t.f - g.miny]

\* the overlap test left out
intersects_unchecked(r1, r2) == TRUE

\* two half-open ranges overlap
intersects(r1, r2) == ~(r1[1] >= r2[2] \/ r1[2] <= r2[1])

intersect(w1, w2) ==
    \A i \in 1..2 : intersects(toranges(w1)[i], toranges(w2)[i])

intersection(w1, w2) ==
    LET a == toranges(w1)
        b == toranges(w2)
        row_start == Max(a[1][1], b[1][1])
        row_stop  == Min(a[1][2], b[1][2])
        col_start == Max(a[2][1], b[2][1])
        col_stop  == Min(a[2][2], b[2][2])
    IN  Window(col_start, row_start, col_stop - col_start, row_stop - row_start)

\* the same with one pixel added on the right and at the bottom
geometry_window_padded(ds, g) ==
    LET b == bounds(g, ds.transform)
        d == ds.transform.a
        row_start == floor(b.top, d)
        row_stop  == ceil(b.bottom, d) + 1
        col_start == floor(b.left, d)
        col_stop  == ceil(b.right, d) + 1
        window == Window(col_start, row_start,
                         Max(col_stop - col_start, 0), Max(row_stop - row_start, 0))
        raster_window == Window(0, 0, ds.width, ds.height)
    IN  IF ~intersect(window, raster_window)
        THEN [err |-> "WindowError", win |-> NoWindow]
        ELSE [err |-> "none", win |-> intersection(window, raster_window)]

\* the same without the intersection with the raster
geometry_window_boundless(ds, g) ==
    LET b == bounds(g, ds.transform)
        d == ds.transform.a
        row_start == floor(b.top, d)
        row_stop  == ceil(b.bottom, d)
        col_start == floor(b.left, d)
        col_stop  == ceil(b.right, d)
    IN  [err |-> "none",
         win |-> Window(col_start, row_start,
                        Max(col_stop - col_start, 0), Max(row_stop - row_start, 0))]

\* the same falling back to the whole raster when the windows do not intersect
geometry_window_default(ds, g) ==
    LET b == bounds(g, ds.transform)
        d == ds.transform.a
        row_start == floor(b.top, d)
        row_stop  == ceil(b.bottom, d)
        col_start == floor(b.left, d)
        col_stop  == ceil(b.right, d)
        window == Window(col_start, row_start,
                         Max(col_stop - col_start, 0), Max(row_stop - row_start, 0))
        raster_window == Window(0, 0, ds.width, ds.height)
    IN  IF ~intersect(window, raster_window)
        THEN [err |-> "none", win |-> raster_window]
        ELSE [err |-> "none", win |-> intersection(window, raster_window)]

\* geometry_window(src, [proj_geom]): floor of the upper-left corner, ceil of
\* the lower-right corner, intersected with the raster; windows that do not
\* intersect raise WindowError.
geometry_window(ds, g) ==
    LET b == bounds(g, ds.transform)
        d == ds.transform.a
        row_start == floor(b.top, d)
        row_stop  == ceil(b.bottom, d)
        col_start == floor(b.left, d)
        col_stop  == ceil(b.right, d)
        window == Window(col_start, row_start,
                         Max(col_stop - col_start, 0), Max(row_stop - row_start, 0))
        raster_window == Window(0, 0, ds.width, ds.height)
    IN  IF ~intersect(window, raster_window)
        THEN [err |-> "WindowError", win |-> NoWindow]
        ELSE [err |-> "none", win |-> intersection(window, raster_window)]

----------------------------------------------------------------------------
(* SpecRead: cell 084d5413 *)

\* Envelopes of the projected geometry: boxes of positive width and height
\* reaching up to half a pixel outside the raster.
Xs == (src.transform.c - 1)..(src.transform.c + src.width * src.transform.a + 1)
Ys == (src.transform.f + src.height * src.transform.e - 1)..(src.transform.f + 1)

Envelopes ==
    {[minx |-> x1, miny |-> y1, maxx |-> x2, maxy |-> y2] :
        x1 \in Xs, x2 \in Xs, y1 \in Ys, y2 \in Ys}

ProperEnvelopes == {g \in Envelopes : g.minx < g.maxx /\ g.miny < g.maxy}

InitRead ==
    /\ proj_geom \in ProperEnvelopes
    /\ win = NoWindow
    /\ pc = "idle"
    /\ call = 0
    /\ cur = 0
    /\ open_handles = {}
    /\ rr_win = NoWindow
    /\ read_err = "none"
    /\ read_log = <<>>
    /\ AlignIdle
    /\ SelectIdle
    /\ DailyIdle

\* a close that is skipped when an exception leaves the block
with_exit_leaky(handles, h, exc) == IF exc THEN handles ELSE handles \ {h}

\* Leaving a with block, normally or through an exception (exc), closes the
\* dataset.
with_exit(handles, h, exc) == handles \ {h}

FullWindow == Window(0, 0, src.width, src.height)

\* a read restricted to the window that was just resolved
src_read_windowed(w) == w

\* src.read(): no window is passed, the whole tile is read
src_read(w) == FullWindow

\* with rasterio.open(s2.raster_asset.url) as src:
TileOpen(ok) ==
    /\ pc = "idle"
    /\ call < MaxCalls
    /\ call' = call + 1
    /\ IF ok
       THEN /\ cur' = call + 1
            /\ open_handles' = open_handles \cup {call + 1}
            /\ pc' = "tile_window"
            /\ read_err' = "none"
       ELSE /\ read_err' = "IOError"
            /\ UNCHANGED <<cur, open_handles, pc>>
    /\ UNCHANGED <<proj_geom, win, rr_win, read_log>>
    /\ UNCHANGED <<alignVars, selectVars, dailyVars>>

\* proj_geom = ...to_crs(src.crs).iloc[0].envelope, which raises when the
\* CRS cannot be resolved, then win = geometry_window(src, [proj_geom])
TileWindow(proj_ok) ==
    /\ pc = "tile_window"
    /\ LET r == IF proj_ok THEN geometry_window(src, proj_geom)
                ELSE [err |-> "InvalidCRS", win |-> NoWindow]
       IN  IF r.err = "none"
           THEN /\ win' = r.win
                /\ pc' = "tile_read"
                /\ UNCHANGED <<cur, open_handles, read_err>>
           ELSE /\ read_err' = r.err
                /\ open_handles' = with_exit(open_handles, cur, TRUE)
                /\ cur' = 0
                /\ pc' = "idle"
                /\ UNCHANGED win
    /\ UNCHANGED <<proj_geom, call, rr_win, read_log>>
    /\ UNCHANGED <<alignVars, selectVars, dailyVars>>

\* ar = src.read(), then the plot and the end of the with block; a failed
\* read leaves the block through the exception
TileRead(ok) ==
    /\ pc = "tile_read"
    /\ IF ok
       THEN /\ read_log' = Append(read_log,
                 [call |-> call, handle |-> cur, by |-> "src.read", window |-> src_read(win)])
            /\ open_handles' = with_exit(open_handles, cur, FALSE)
            /\ UNCHANGED read_err
       ELSE /\ read_err' = "IOError"
            /\ open_handles' = with_exit(open_handles, cur, TRUE)
            /\ UNCHANGED read_log
    /\ cur' = 0
    /\ pc' = "idle"
    /\ UNCHANGED <<proj_geom, win, call, rr_win>>
    /\ UNCHANGED <<alignVars, selectVars, dailyVars>>

(* read_raster(s2, geom) of vibe_notebook.raster: open the raster, resolve  *)
(* the window of the geometry, read that window, release the handle.        *)

ReadRasterOpen(ok) ==
    /\ pc = "idle"
    /\ call < MaxCalls
    /\ call' = call + 1
    /\ IF ok
       THEN /\ cur' = call + 1
            /\ open_handles' = open_handles \cup {call + 1}
            /\ pc' = "rr_window"
            /\ read_err' = "none"
       ELSE /\ read_err' = "IOError"
            /\ UNCHANGED <<cur, open_handles, pc>>
    /\ UNCHANGED <<proj_geom, win, rr_win, read_log>>
    /\ UNCHANGED <<alignVars, selectVars, dailyVars>>

ReadRasterWindow(proj_ok) ==
    /\ pc = "rr_window"
    /\ LET r == IF proj_ok THEN geometry_window(src, proj_geom)
                ELSE [err |-> "InvalidCRS", win |-> NoWindow]
       IN  IF r.err = "none"
           THEN /\ rr_win' = r.win
                /\ pc' = "rr_read"
                /\ UNCHANGED <<cur, open_handles, read_err>>
           ELSE /\ read_err' = r.err
                /\ open_handles' = with_exit(open_handles, cur, TRUE)
                /\ cur' = 0
                /\ pc' = "idle"
                /\ UNCHANGED rr_win
    /\ UNCHANGED <<proj_geom, win, call, read_log>>
    /\ UNCHANGED <<alignVars, selectVars, dailyVars>>

ReadRasterRead(ok) ==
    /\ pc = "rr_read"
    /\ IF ok
       THEN /\ read_log' = Append(read_log,
                 [call |-> call, handle |-> cur, by |-> "read_raster", window |-> rr_win])
            /\ open_handles' = with_exit(open_handles, cur, FALSE)
            /\ UNCHANGED read_err
       ELSE /\ read_err' = "IOError"
            /\ open_handles' = with_exit(open_handles, cur, TRUE)
            /\ UNCHANGED read_log
    /\ cur' = 0
    /\ rr_win' = NoWindow
    /\ pc' = "idle"
    /\ UNCHANGED <<proj_geom, win, call>>
    /\ UNCHANGED <<alignVars, selectVars, dailyVars>>

NextRead ==
    \/ \E ok \in BOOLEAN : TileOpen(ok)
    \/ \E proj_ok \in BOOLEAN : TileWindow(proj_ok)
    \/ \E ok \in BOOLEAN : TileRead(ok)
    \/ \E ok \in BOOLEAN : ReadRasterOpen(ok)
    \/ \E proj_ok \in BOOLEAN : ReadRasterWindow(proj_ok)
    \/ \E ok \in BOOLEAN : ReadRasterRead(ok)

SpecRead == InitRead /\ [][NextRead]_vars

----------------------------------------------------------------------------
(* Properties of SpecRead *)

RowStart(w) == toranges(w)[1][1]
RowStop(w) == toranges(w)[1][2]
ColStart(w) == toranges(w)[2][1]
ColStop(w) == toranges(w)[2][2]

\* the envelope overlaps the raster's extent with positive area
Intersects(ds, g) ==
    LET t == ds.transform
    IN  /\ g.minx < t.c + ds.width * t.a
        /\ g.maxx > t.c
        /\ g.miny < t.f
        /\ g.maxy > t.f + ds.height * t.e

\* pixel (r, c) of the raster is touched by the envelope
Touched(ds, g, r, c) ==
    LET t == ds.transform
    IN  /\ g.minx < t.c + (c + 1) * t.a
        /\ g.maxx > t.c + c * t.a
        /\ g.miny < t.f + r * t.e
        /\ g.maxy > t.f + (r + 1) * t.e

\* the integers k with k <= n/d < k + 1 and k - 1 < n/d <= k, for d > 0
IsFloor(k, n, d) == k * d <= n /\ n < (k + 1) * d
IsCeil(k, n, d) == (k - 1) * d < n /\ n <= k * d

Clamp(k, lo, hi) == IF k < lo THEN lo ELSE IF k > hi THEN hi ELSE k

PixelRange == (-2)..(src.width + src.height + 2)

\* a 11000 x 11000 tile of 10 m pixels whose upper-left corner is at
\* (499980 + o, 10000000), and the envelope (500000, 9930000)-(501000, 9931000)
Tile11k(o) ==
    [width |-> 11000, height |-> 11000,
     transform |-> [a |-> 10, c |-> 499980 + o, e |-> -10, f |-> 10000000]]

Envelope1km == [minx |-> 500000, miny |-> 9930000, maxx |-> 501000, maxy |-> 9931000]

Scenario11k ==
    \A o \in 0..9 :
        LET r == geometry_window(Tile11k(o), Envelope1km)
        IN  /\ r.err = "none"
            /\ r.win.width \in 100..101 /\ r.win.height = 100
            /\ r.win.col_off \in 1..2 /\ r.win.row_off = 6900

TileWindowBound == win # NoWindow

\* C6: for an envelope that intersects the raster the resolved window is
\* returned, satisfies 0 <= start < stop <= size in rows and columns, contains
\* every raster pixel the envelope touches, and its bounds are the floor
\* (lower) and ceil (upper) of the fractional pixel coordinates clamped to the
\* raster; on the 11000 x 11000 grid of 10 m pixels the 1000 m x 1000 m
\* envelope gives 100 x 100 pixels within one pixel.
C6_WindowCoversEnvelope ==
    /\ (Intersects(src, proj_geom) /\ pc = "idle" /\ call > 0) => read_err # "WindowError"
    /\ (TileWindowBound /\ Intersects(src, proj_geom)) =>
          LET t == src.transform
              b == [left |-> proj_geom.minx - t.c, right |-> proj_geom.maxx - t.c,
                    top |-> t.f - proj_geom.maxy, bottom |-> t.f - proj_geom.miny]
          IN  /\ 0 <= RowStart(win) /\ RowStart(win) < RowStop(win)
              /\ RowStop(win) <= src.height
              /\ 0 <= ColStart(win) /\ ColStart(win) < ColStop(win)
              /\ ColStop(win) <= src.width
              /\ \A r \in 0..(src.height - 1), c \in 0..(src.width - 1) :
                    Touched(src, proj_geom, r, c) =>
                        /\ RowStart(win) <= r /\ r < RowStop(win)
                        /\ ColStart(win) <= c /\ c < ColStop(win)
              /\ \E k \in PixelRange :
                    IsFloor(k, b.top, t.a) /\ RowStart(win) = Clamp(k, 0, src.height)
              /\ \E k \in PixelRange :
                    IsCeil(k, b.bottom, t.a) /\ RowStop(win) = Clamp(k, 0, src.height)
              /\ \E k \in PixelRange :
                    IsFloor(k, b.left, t.a) /\ ColStart(win) = Clamp(k, 0, src.width)
              /\ \E k \in PixelRange :
                    IsCeil(k, b.right, t.a) /\ ColStop(win) = Clamp(k, 0, src.width)
    /\ Scenario11k

\* The window of an envelope that starts left of the raster and ends inside
\* a pixel has been resolved: the lower bound is clamped, the upper bound is
\* rounded up.
C6_Witness ==
    /\ pc = "tile_read"
    /\ proj_geom.minx < src.transform.c
    /\ (proj_geom.maxx - src.transform.c) % src.transform.a # 0
    /\ ColStart(win) = 0
    /\ ColStop(win) * src.transform.a > proj_geom.maxx - src.transform.c
    /\ ColStop(win) < src.width

CallReturned == pc = "idle" /\ call > 0

NoEmptyWindow(w) ==
    w # NoWindow => RowStart(w) < RowStop(w) /\ ColStart(w) < ColStop(w)

\* C7 as stated: a call on an envelope that does not intersect the raster
\* ends with the error OutOfBounds (unless the storage could not be opened or
\* the projection failed),
\* and no window with start >= stop is ever returned.
C7_OutOfBoundsKind ==
    /\ (CallReturned /\ ~Intersects(src, proj_geom)) => read_err \in {"IOError", "InvalidCRS", "OutOfBounds"}
    /\ NoEmptyWindow(win) /\ NoEmptyWindow(rr_win)

\* C7 amended: a call on an envelope that does not intersect the raster ends
\* with rasterio's WindowError raised to the caller (unless the storage could
\* not be opened or the projection failed); no window is bound and nothing is read, and no window with
\* start >= stop is ever returned.
C7_DisjointRaisesWindowError ==
    /\ (CallReturned /\ ~Intersects(src, proj_geom)) => read_err \in {"IOError", "InvalidCRS", "WindowError"}
    /\ ~Intersects(src, proj_geom) => win = NoWindow /\ rr_win = NoWindow /\ read_log = <<>>
    /\ NoEmptyWindow(win) /\ NoEmptyWindow(rr_win)

\* The tile cell has failed on an envelope lying beside the raster.
C7_Witness ==
    /\ CallReturned
    /\ ~Intersects(src, proj_geom)
    /\ proj_geom.maxx <= src.transform.c
    /\ read_err = "WindowError"
    /\ open_handles = {}

\* the rectangle the pixel bounds of w map to under the raster's transform
WindowEnvelope(ds, w) ==
    LET t == ds.transform
    IN  [minx |-> t.c + ColStart(w) * t.a, maxx |-> t.c + ColStop(w) * t.a,
         maxy |-> t.f + RowStart(w) * t.e, miny |-> t.f + RowStop(w) * t.e]

\* C8: resolving the CRS envelope of a returned window against the same
\* raster returns exactly that window.
C8_ResolveIdempotent ==
    TileWindowBound =>
        geometry_window(src, WindowEnvelope(src, win)) = [err |-> "none", win |-> win]

\* A window resolved from an envelope with fractional pixel bounds that
\* leaves room to grow on the left, on the right and at the bottom.
C8_Witness ==
    /\ pc = "tile_read"
    /\ WindowEnvelope(src, win) # proj_geom
    /\ ColStart(win) > 0
    /\ ColStop(win) < src.width
    /\ RowStop(win) < src.height

LogEntries == {read_log[i] : i \in 1..Len(read_log)}

\* C9 as stated: every read of raster storage fetches exactly the pixels of
\* the window resolved for the geometry.
C9_EveryReadWindowed ==
    \A e \in LogEntries : e.window = geometry_window(src, proj_geom).win

\* C9 amended: every read made by read_raster for a geometry fetches exactly
\* the pixels of the resolved window, and the src.read() of the tile overview
\* in cell 084d5413, which passes no window, fetches the full raster.
C9_ReadsByEntryPoint ==
    \A e \in LogEntries :
        /\ e.by = "read_raster" =>
              /\ geometry_window(src, proj_geom).err = "none"
              /\ e.window = geometry_window(src, proj_geom).win
        /\ e.by = "src.read" =>
              /\ RowStart(e.window) = 0 /\ RowStop(e.window) = src.height
              /\ ColStart(e.window) = 0 /\ ColStop(e.window) = src.width

\* Both entry points have read for a geometry whose window is smaller than
\* the raster.
C9_Witness ==
    /\ \E e \in LogEntries : e.by = "src.read" /\ e.window # win
    /\ \E e \in LogEntries : e.by = "read_raster" /\ e.window = win
    /\ win.width < src.width

\* C10: a call's handle is its own and is released when the call returns,
\* whether it succeeded or failed in window resolution or in the read: no
\* handle is open between calls, at most the handle of the call in progress
\* is open, and no two calls read through the same handle.
C10_HandleScoped ==
    /\ pc = "idle" => open_handles = {} /\ cur = 0
    /\ pc # "idle" => open_handles = {cur} /\ cur = call
    /\ \A i, j \in 1..Len(read_log) :
          i # j => read_log[i].handle # read_log[j].handle
    /\ \A e \in LogEntries : e.handle = e.call

\* A successful read was followed by a call that opened the raster, resolved
\* its window and then failed in the read; no handle is left open.
C10_Witness ==
    /\ pc = "idle"
    /\ call = 2
    /\ Len(read_log) = 1
    /\ read_log[1].by = "read_raster"
    /\ win # NoWindow
    /\ read_err = "IOError"
    /\ open_handles = {}

\* the step that projects the geometry and resolves its window
ResolutionStep == pc \in {"tile_window", "rr_window"}

\* the step raised: the call is over, nothing was bound and nothing was read
Aborted ==
    /\ pc' = "idle" /\ cur' = 0 /\ call' = call
    /\ read_err' \in {"InvalidCRS", "WindowError"}
    /\ win' = win /\ rr_win' = rr_win
    /\ read_log' = read_log

\* the step bound a window of the raster and went on to the read
Resolved ==
    /\ Intersects(src, proj_geom)
    /\ pc' = (IF pc = "tile_window" THEN "tile_read" ELSE "rr_read")
    /\ LET w == IF pc = "tile_window" THEN win' ELSE rr_win'
       IN  /\ w # NoWindow
           /\ 0 <= RowStart(w) /\ RowStop(w) <= src.height
           /\ 0 <= ColStart(w) /\ ColStop(w) <= src.width
    /\ read_err' = read_err /\ call' = call
    /\ read_log' = read_log

----------------------------------------------------------------------------
(* SpecDaily: cell e1956173, the daily imagery of both collections *)

\* for i in range(1, 7): the reference dates 2018-06-11 .. 2018-06-16
NumDays == 6
NumCollections == 2

RefDays == 1..NumDays

\* the kernel before the cell runs: neither match_ar nor no_data is bound
InitDaily ==
    /\ se_days \in SUBSET RefDays
    /\ s2_days \in SUBSET RefDays
    /\ r_idx = 1
    /\ day_i = 1
    /\ match_ar = Unbound
    /\ no_data = Unbound
    /\ daily_err = "none"
    /\ shown = <<>>
    /\ AlignIdle
    /\ SelectIdle
    /\ ReadIdle

\* r of the outer loop: zip((se_run.output["raster"], runs[0].output["raster"]), ...)
r_days == IF r_idx = 1 THEN se_days ELSE s2_days

\* np.zeros_like(match_ar)
zeros_like(ar) == [bound |-> TRUE, r |-> ar.r, day |-> 0]

\* one pass of the inner loop: match_raster, then imshow of match_ar or of
\* no_data; reading a name that is not bound raises NameError
DailyShow ==
    /\ daily_err = "none"
    /\ r_idx <= NumCollections
    /\ day_i <= NumDays
    /\ LET match_raster == {d \in r_days : d = day_i}
       IN  IF match_raster # {}
           THEN /\ match_ar' = [bound |-> TRUE, r |-> r_idx, day |-> day_i]
                /\ shown' = Append(shown, match_ar')
                /\ day_i' = day_i + 1
                /\ UNCHANGED daily_err
           ELSE IF no_data.bound
           THEN /\ shown' = Append(shown, no_data)
                /\ day_i' = day_i + 1
                /\ UNCHANGED <<match_ar, daily_err>>
           ELSE /\ daily_err' = "NameError"
                /\ UNCHANGED <<match_ar, shown, day_i>>
    /\ UNCHANGED <<se_days, s2_days, r_idx, no_data>>
    /\ UNCHANGED <<alignVars, selectVars, readVars>>

\* the end of one pass of the outer loop: lw_plot() and
\* no_data = np.zeros_like(match_ar)
DailyEndCollection ==
    /\ daily_err = "none"
    /\ r_idx <= NumCollections
    /\ day_i = NumDays + 1
    /\ IF match_ar.bound
       THEN /\ no_data' = zeros_like(match_ar)
            /\ r_idx' = r_idx + 1
            /\ day_i' = 1
            /\ UNCHANGED daily_err
       ELSE /\ daily_err' = "NameError"
            /\ UNCHANGED <<no_data, r_idx, day_i>>
    /\ UNCHANGED <<se_days, s2_days, match_ar, shown>>
    /\ UNCHANGED <<alignVars, selectVars, readVars>>

NextDaily ==
    \/ DailyShow
    \/ DailyEndCollection

SpecDaily == InitDaily /\ [][NextDaily]_vars

\* C15: in the daily-imagery loop the no_data placeholder, and the match_ar
\* it is made from, is bound before it is used, whatever the two collections
\* hold on the reference dates: the cell never stops on an unbound name, and
\* every image it shows is a bound one.
C15_PlaceholderDefinedBeforeUse ==
    /\ daily_err # "NameError"
    /\ \A k \in 1..Len(shown) : shown[k].bound

====
